---- MODULE Spec2Model ----
(***************************************************************************)
(* Model of multi-ai-chat.  The backend (backend/server.js): the provider   *)
(* registry built at startup, the four provider adapters, the POST /chat   *)
(* handler with its single-level fallback, and GET /health and /models.    *)
(* The frontend (frontend/src/App.tsx): the App component's state, its     *)
(* handlers and its copy of the conversation in localStorage.              *)
(*                                                                         *)
(* Specifications:                                                         *)
(*   Spec         POST /chat requests against a registry built at startup  *)
(*   SpecFair     Spec, with every awaited provider call settling          *)
(*   SpecApi      Spec's actions together with GET /health and GET /models *)
(*   SpecStartup  initializeClients, one provider block at a time          *)
(*   SpecUI       the App component against the responses of a backend      *)
(*   SpecUIFair   SpecUI, with every POST /chat request of the page settling *)
(*                                                                         *)
(* Texts supplied by a caller or a provider are sequences of one-character *)
(* strings (so that trim and length are computed, not assumed); literals   *)
(* of the program (identifiers, error messages) are TLA+ strings, and      *)
(* template literals are string concatenations.  The `timestamp` field of  *)
(* the responses and of the messages (the wall clock) is left out.         *)
(***************************************************************************)
EXTENDS Naturals, Sequences, FiniteSets, TLC

VARIABLES
  clients,    \* the keys of the `clients` object of server.js (a set)
  requests,   \* per POST /chat request: the handler's position (pc), the request
              \* body, the caught errors (error, fallbackError: <<>> or <<message>>),
              \* the adapters entered (invoked), the provider calls issued (called),
              \* the adapter results returned (returned), the responses sent (sent)
  health,     \* the GET /health responses sent so far (at most MaxHealth)
  models,     \* the latest GET /models response: <<>> or <<entry>>
  startup,    \* initializeClients' position and inputs while the process starts
  app,        \* the state of the App component (messages, inputMessage,
              \* selectedModel, availableModels, isLoading, isConnected), the
              \* mount requests still awaited (fetching), and the POST /chat
              \* requests in flight (chat: the bodies, oldest first)
  localStorage,  \* the item 'multi-ai-chat-messages': <<>> or <<saved list>>
  now         \* the clock Date.now() reads

serverVars == <<clients, requests, health, models, startup>>

vars == <<clients, requests, health, models, startup, app, localStorage, now>>

----------------------------------------------------------------------------
(* Bounds and input domains *)

\* Length of the conversation history a caller supplies.
MaxHistory == 2

\* Largest token count a provider reports.
MaxTokens == 1

\* GET /health calls whose responses are kept.
MaxHealth == 2

\* Messages of the conversation an earlier session saved.
MaxSaved == 11

\* Messages the user sends in a run.
MaxSends == 2

\* POST /chat requests that can be in flight at the same time.
ReqIds == {"r1", "r2"}

\* The four providers, in the order initializeClients probes them.
ProviderOrder == <<"gemini", "huggingface", "openai", "mistral">>

Providers == {ProviderOrder[i] : i \in DOMAIN ProviderOrder}

Hi == <<"h", "i">>

Digits == <<"1", "2", "3", "4", "5", "6", "7", "8", "9">>

\* A chronological history of n turns with pairwise different contents.
Turns(n) ==
  [i \in 1..n |-> [role |-> IF i % 2 = 1 THEN "user" ELSE "assistant",
                   content |-> <<"m", Digits[i]>>]]

\* Request bodies: a body is a record holding only the fields that were sent.
EmptyBody == [f \in {} |-> f]

RequestedModels == Providers \cup {"claude"}

Bodies ==
       {[message |-> Hi, model |-> m, conversationHistory |-> Turns(MaxHistory)] :
          m \in RequestedModels}
  \cup {[message |-> Hi, model |-> m] : m \in RequestedModels}
  \cup {EmptyBody,
        [message |-> Hi],
        [model |-> "gemini"],
        [message |-> <<>>, model |-> "gemini"],
        [message |-> Hi, model |-> ""],
        [message |-> <<>>, model |-> "claude"]}

\* What a provider can answer to one call: a result, or an error with a message.
\* `usage` is <<>> when the provider reports no token count, <<n>> otherwise.
ProviderErrors == {"rate limit"}

ProviderResults ==
  {[text |-> <<" ", "o", "k">>, usage |-> u] :
     u \in {<<>>} \cup {<<n>> : n \in 0..MaxTokens}}

----------------------------------------------------------------------------
(* Startup *)

RECURSIVE SelectSeq2(_, _)
\* The subsequence of s whose elements are in S (order kept).
SelectSeq2(s, S) ==
  IF s = <<>> THEN <<>>
  ELSE IF Head(s) \in S THEN <<Head(s)>> \o SelectSeq2(Tail(s), S)
       ELSE SelectSeq2(Tail(s), S)

\* initializeClients: a provider gets a client when its credential is set and the
\* client's constructor does not throw; each provider is handled on its own.
initializeClients(env, ctorThrows) ==
  {p \in Providers : p \in env /\ p \notin ctorThrows}

\* Object.keys(clients): the keys in insertion order, which is the order in which
\* initializeClients assigns them.
ObjectKeysReversed(cl) ==
  LET keys == SelectSeq2(ProviderOrder, cl) IN
  [i \in 1..Len(keys) |-> keys[Len(keys) + 1 - i]]

ObjectKeys(cl) == SelectSeq2(ProviderOrder, cl)

----------------------------------------------------------------------------
(* Provider adapters *)

DisplayName(p) ==
  CASE p = "gemini" -> "Gemini"
    [] p = "huggingface" -> "Hugging Face"
    [] p = "openai" -> "OpenAI"
    [] p = "mistral" -> "Mistral"

ModelName(p) ==
  CASE p = "gemini" -> "gemini-1.5-flash"
    [] p = "huggingface" -> "microsoft/DialoGPT-medium"
    [] p = "openai" -> "gpt-4o-mini"
    [] p = "mistral" -> "mistral-small-latest"

\* throw new Error('<Provider> client not available')
UnavailableError(p) == DisplayName(p) \o " client not available"

\* throw new Error(`<Provider> API error: ${error.message}`)
ApiError(p, msg) == DisplayName(p) \o " API error: " \o msg

IsSpace(c) == c = " "

RECURSIVE TrimStart(_)
TrimStart(s) ==
  IF s # <<>> /\ IsSpace(Head(s)) THEN TrimStart(Tail(s)) ELSE s

RECURSIVE TrimEnd(_)
TrimEnd(s) ==
  IF s # <<>> /\ IsSpace(s[Len(s)]) THEN TrimEnd(SubSeq(s, 1, Len(s) - 1)) ELSE s

\* String.prototype.trim
Trim(s) == TrimEnd(TrimStart(s))

\* x || 0 for an optional number
OrZero(u) == IF u = <<>> THEN 0 ELSE u[1]

ToChars(word) ==
  CASE word = "User" -> <<"U", "s", "e", "r">>
    [] word = "Assistant" -> <<"A", "s", "s", "i", "s", "t", "a", "n", "t">>

RECURSIVE JoinLines(_)
\* Array.prototype.join('\n')
JoinLines(lines) ==
  IF lines = <<>> THEN <<>>
  ELSE IF Len(lines) = 1 THEN lines[1]
  ELSE lines[1] \o <<"\n">> \o JoinLines(Tail(lines))

\* What each adapter sends to its provider for (message, conversationHistory).
GeminiPayload(message, history) ==
  [history |-> [i \in DOMAIN history |->
                  [role |-> IF history[i].role = "assistant" THEN "model" ELSE "user",
                   parts |-> <<[text |-> history[i].content]>>]],
   message |-> message]

HuggingFacePayload(message, history) ==
  [inputs |->
     JoinLines([i \in DOMAIN history |->
                  ToChars(IF history[i].role = "user" THEN "User" ELSE "Assistant")
                  \o <<":", " ">> \o history[i].content])
     \o <<"\n">> \o ToChars("User") \o <<":", " ">> \o message
     \o <<"\n">> \o ToChars("Assistant") \o <<":">>]

MessagesPayloadMessageFirst(message, history) ==
  [messages |-> <<[role |-> "user", content |-> message]>> \o history]

MessagesPayload(message, history) ==
  [messages |-> history \o <<[role |-> "user", content |-> message]>>]

Payload(p, message, history) ==
  CASE p = "gemini" -> GeminiPayload(message, history)
    [] p = "huggingface" -> HuggingFacePayload(message, history)
    [] p = "openai" -> MessagesPayload(message, history)
    [] p = "mistral" -> MessagesPayload(message, history)

\* The uniform result {content, model, tokensUsed} an adapter builds from its
\* provider's answer.
AdapterResult(p, result) ==
  CASE p = "gemini" ->
         [content |-> result.text, model |-> ModelName(p),
          tokensUsed |-> OrZero(result.usage)]
    [] p = "huggingface" ->
         [content |-> Trim(result.text), model |-> ModelName(p),
          tokensUsed |-> Len(result.text)]
    [] p = "openai" ->
         [content |-> result.text, model |-> ModelName(p),
          tokensUsed |-> OrZero(result.usage)]
    [] p = "mistral" ->
         [content |-> result.text, model |-> ModelName(p),
          tokensUsed |-> OrZero(result.usage)]

----------------------------------------------------------------------------
(* POST /chat *)

\* JavaScript's undefined, for a field the body does not carry.  No body of
\* Bodies carries this text, and truthiness is decided on presence (below).
Undefined == "undefined"

Get(b, f) == IF f \in DOMAIN b THEN b[f] ELSE Undefined

\* !!message and !!model: the field is present and not the empty string.
MessageGiven(b) == "message" \in DOMAIN b /\ b.message # <<>>

ModelGiven(b) == "model" \in DOMAIN b /\ b.model # ""

\* const { conversationHistory = [] } = req.body, and the adapters' default
\* parameter conversationHistory = [] on the fallback call.
HistoryOf(b) ==
  IF "conversationHistory" \in DOMAIN b THEN b.conversationHistory ELSE <<>>

IdleRequest ==
  [pc |-> "idle", body |-> EmptyBody, error |-> <<>>, fallbackError |-> <<>>,
   invoked |-> <<>>, called |-> <<>>, returned |-> <<>>, sent |-> <<>>]

\* if (!message || !model)
RequestInvalidModelOnly(b) == ~ModelGiven(b)

RequestInvalid(b) == ~MessageGiven(b) \/ ~ModelGiven(b)

\* res.status(400).json({ error })
BadRequest(text) == [status |-> 400, error |-> text]

\* res.json({ success: true, response, model, tokensUsed, timestamp })
SuccessResponseWrongModel(requested, result) ==
  [status |-> 200, success |-> TRUE, response |-> result.content,
   model |-> requested, tokensUsed |-> result.tokensUsed]

SuccessResponseRunningTotal(requested, result) ==
  [status |-> 200, success |-> TRUE, response |-> result.content,
   model |-> result.model,
   tokensUsed |-> result.tokensUsed
                  + Cardinality({r \in ReqIds : requests[r].returned # <<>>})]

SuccessResponse(requested, result) ==
  [status |-> 200, success |-> TRUE, response |-> result.content,
   model |-> result.model, tokensUsed |-> result.tokensUsed]

\* res.json({ success: true, ..., fallback: true, originalError: error.message })
FallbackResponseNoOriginalError(result, error) ==
  [status |-> 200, success |-> TRUE, response |-> result.content,
   model |-> result.model, tokensUsed |-> result.tokensUsed,
   fallback |-> TRUE, originalError |-> "Failed to get AI response"]

FallbackResponse(result, error) ==
  [status |-> 200, success |-> TRUE, response |-> result.content,
   model |-> result.model, tokensUsed |-> result.tokensUsed,
   fallback |-> TRUE, originalError |-> error]

\* res.status(500).json({ error: 'Failed to get AI response', details: error.message })
FailureResponseNoStatus(error) ==
  [status |-> 200, error |-> "Failed to get AI response", details |-> error]

FailureResponseNoDetails(error) ==
  [status |-> 500, error |-> "Failed to get AI response",
   details |-> "Internal server error"]

FailureResponse(error) ==
  [status |-> 500, error |-> "Failed to get AI response", details |-> error]

\* The handler sends a response and ends.
Respond(q, response) ==
  [q EXCEPT !.pc = "done", !.sent = Append(@, response)]

\* Entering handle<Provider>Request(message, conversationHistory): without a client
\* it throws before any call; with one it issues the provider call and suspends.
InvokeAdapterNoGuard(q, p, message, history) ==
  [req |-> [q EXCEPT !.invoked = Append(@, p),
                     !.called = Append(@, [provider |-> p,
                                           payload |-> Payload(p, message, history)])],
   thrown |-> <<>>]

InvokeAdapter(q, p, message, history) ==
  LET q1 == [q EXCEPT !.invoked = Append(@, p)] IN
  IF p \notin clients
  THEN [req |-> q1, thrown |-> <<UnavailableError(p)>>]
  ELSE [req |-> [q1 EXCEPT !.called =
                   Append(@, [provider |-> p, payload |-> Payload(p, message, history)])],
        thrown |-> <<>>]

\* handleFallback(message, model, conversationHistory)
handleFallback(q, model, message, history) ==
  IF model \in Providers
  THEN InvokeAdapter(q, model, message, history)
  ELSE [req |-> q, thrown |-> <<"No fallback model available">>]

\* catch (fallbackError): the error is logged, and control falls through to the
\* 500 response built from the primary error.
FallbackFailedTryNext(q, message) ==
  LET rest == SelectSeq2(ObjectKeys(clients), clients \ {q.invoked[i] : i \in DOMAIN q.invoked})
      q1 == [q EXCEPT !.fallbackError = <<message>>] IN
  IF rest # <<>>
  THEN [InvokeAdapter(q1, rest[1], Get(q.body, "message"),
                      HistoryOf(q.body)).req EXCEPT !.pc = "fallback"]
  ELSE Respond(q1, FailureResponse(q.error[1]))

FallbackFailed(q, message) ==
  Respond([q EXCEPT !.fallbackError = <<message>>], FailureResponse(q.error[1]))

\* if (availableModels.length > 0 && req.body.model !== availableModels[0])
ShouldFallbackAlways(availableModels, model) == Len(availableModels) > 0

ShouldFallback(availableModels, model) ==
  Len(availableModels) > 0 /\ model # availableModels[1]

\* The catch block of the handler, entered with the error the try block threw.
Catch(q, message) ==
  LET availableModels == ObjectKeys(clients)
      q1 == [q EXCEPT !.error = <<message>>] IN
  IF ShouldFallback(availableModels, Get(q.body, "model"))
  THEN LET \* req.body.conversationHistory: when undefined, the adapter's default
           \* parameter (conversationHistory = []) replaces it
           res == handleFallback(q1, availableModels[1], Get(q.body, "message"),
                                 HistoryOf(q.body)) IN
       IF res.thrown # <<>>
       THEN FallbackFailed(res.req, res.thrown[1])
       ELSE [res.req EXCEPT !.pc = "fallback"]
  ELSE Respond(q1, FailureResponse(message))

\* default: return res.status(400).json({ error: 'Invalid model specified' })
DefaultCaseThrows(q) == Catch(q, "Invalid model specified")

DefaultCaseNoReturn(q) ==
  Catch(Respond(q, BadRequest("Invalid model specified")),
        "Cannot read properties of undefined (reading 'content')")

DefaultCase(q) == Respond(q, BadRequest("Invalid model specified"))

\* The try block up to the first await of a provider call.
ChatHandler(q) ==
  LET b == q.body IN
  IF RequestInvalid(b)
  THEN Respond(q, BadRequest("Message and model are required"))
  ELSE IF Get(b, "model") \in Providers
  THEN LET res == InvokeAdapter(q, b.model, Get(b, "message"), HistoryOf(b)) IN
       IF res.thrown # <<>>
       THEN Catch(res.req, res.thrown[1])
       ELSE [res.req EXCEPT !.pc = "primary"]
  ELSE DefaultCase(q)

\* The provider whose call request q is waiting for.
Awaited(q) == q.called[Len(q.called)].provider

\* The awaited call returns: the adapter builds its result and the handler responds.
Resolved(q, result) ==
  LET r == AdapterResult(Awaited(q), result)
      q1 == [q EXCEPT !.returned = Append(@, r)] IN
  IF q.pc = "primary"
  THEN Respond(q1, SuccessResponse(Get(q.body, "model"), r))
  ELSE Respond(q1, FallbackResponse(r, q.error[1]))

\* The awaited call throws: the adapter rethrows it as '<Provider> API error: ...'.
Rejected(q, message) ==
  LET e == ApiError(Awaited(q), message) IN
  IF q.pc = "primary" THEN Catch(q, e) ELSE FallbackFailed(q, e)

----------------------------------------------------------------------------
(* Frontend: the App component of frontend/src/App.tsx *)

\* messages.slice(-10): how many messages of the conversation are resubmitted.
HistoryWindow == 10

\* Date.now() for the clock value t.  The clock moves on with every message
\* that is sent, and a reply arrives before the next message can be sent, so
\* the ids keep the order the source's ids have.
DateNow(t) == 2 * t

\* An optional property: <<>> when the object lacks it, <<value>> otherwise.
Opt(b, f) == IF f \in DOMAIN b THEN <<b[f]>> ELSE <<>>

OptionalFields == {"model", "tokensUsed", "fallback"}

\* const userMessage = { id, content: inputMessage.trim(), role: 'user', timestamp }
UserMessage(t, text) ==
  [id |-> ToString(DateNow(t)), role |-> "user", content |-> text,
   model |-> <<>>, tokensUsed |-> <<>>, fallback |-> <<>>]

\* const assistantMessage = { id, content: data.response, role: 'assistant',
\*   model: data.model, tokensUsed: data.tokensUsed, timestamp, fallback: data.fallback }
AssistantMessage(t, data) ==
  [id |-> ToString(DateNow(t) + 1), role |-> "assistant", content |-> data.response,
   model |-> Opt(data, "model"), tokensUsed |-> Opt(data, "tokensUsed"),
   fallback |-> Opt(data, "fallback")]

\* const errorMessage = { id, content: `Sorry, ... ${error.message}. ...`,
\*   role: 'assistant', timestamp }; the text is one piece.
ErrorMessage(t, message) ==
  [id |-> ToString(DateNow(t) + 1), role |-> "assistant",
   content |-> <<"Sorry, I encountered an error: " \o message
                 \o ". Please try again or switch to a different model.">>,
   model |-> <<>>, tokensUsed |-> <<>>, fallback |-> <<>>]

\* JSON.stringify of one message: a property whose value is undefined is left out.
StringifyMessage(m) ==
  LET present == {"id", "role", "content"} \cup {f \in OptionalFields : m[f] # <<>>} IN
  [f \in present |-> IF f \in OptionalFields THEN m[f][1] ELSE m[f]]

\* JSON.stringify(messages)
Stringify(ms) == [i \in DOMAIN ms |-> StringifyMessage(ms[i])]

\* ({ ...msg, timestamp: new Date(msg.timestamp) }) for one parsed message
ParseMessageRequiredOnly(j) ==
  [id |-> j.id, role |-> j.role, content |-> j.content,
   model |-> <<>>, tokensUsed |-> <<>>, fallback |-> <<>>]

ParseMessage(j) ==
  [id |-> j.id, role |-> j.role, content |-> j.content,
   model |-> Opt(j, "model"), tokensUsed |-> Opt(j, "tokensUsed"),
   fallback |-> Opt(j, "fallback")]

\* JSON.parse(savedMessages).map(...)
Parse(js) == [i \in DOMAIN js |-> ParseMessage(js[i])]

\* The effect that follows every change of `messages`: an empty list is not saved.
Saved(stored, ms) == IF Len(ms) > 0 THEN <<Stringify(ms)>> ELSE stored

\* useState('gemini')
InitialModel == "gemini"

\* The component after its first render and its mount effects: the saved
\* conversation (if any) is loaded, /models and /health have been requested,
\* no POST /chat is in flight.
Mounted(stored) ==
  [messages |-> IF stored = <<>> THEN <<>> ELSE Parse(stored[1]),
   inputMessage |-> <<>>,
   selectedModel |-> InitialModel,
   availableModels |-> <<>>,
   isLoading |-> FALSE,
   isConnected |-> FALSE,
   fetching |-> {"models", "health"},
   chat |-> <<>>]

\* Array.prototype.slice(-n)
SliceLast(s, n) == SubSeq(s, (IF Len(s) < n THEN 0 ELSE Len(s) - n) + 1, Len(s))

\* messages.slice(-10).map(msg => ({ role: msg.role, content: msg.content }))
ConversationHistory(ms) ==
  LET window == SliceLast(ms, HistoryWindow) IN
  [i \in DOMAIN window |-> [role |-> window[i].role, content |-> window[i].content]]

\* The body of the POST /chat request, built from the state sendMessage was
\* rendered with.
ChatRequestAfterAppend(a) ==
  [message |-> Trim(a.inputMessage), model |-> a.selectedModel,
   conversationHistory |->
     ConversationHistory(Append(a.messages,
                                [role |-> "user", content |-> Trim(a.inputMessage)]))]

ChatRequest(a) ==
  [message |-> Trim(a.inputMessage), model |-> a.selectedModel,
   conversationHistory |-> ConversationHistory(a.messages)]

\* sendMessage up to its await: nothing happens on a blank input or while a
\* request is in flight; otherwise the user message is appended, the input is
\* emptied and the request leaves.
sendMessageUnguarded(a, t) ==
  [a EXCEPT !.messages = Append(@, UserMessage(t, Trim(a.inputMessage))),
            !.inputMessage = <<>>,
            !.isLoading = TRUE,
            !.chat = Append(@, ChatRequest(a))]

sendMessage(a, t) ==
  IF Trim(a.inputMessage) = <<>> \/ a.isLoading THEN a
  ELSE [a EXCEPT !.messages = Append(@, UserMessage(t, Trim(a.inputMessage))),
                 !.inputMessage = <<>>,
                 !.isLoading = TRUE,
                 !.chat = Append(@, ChatRequest(a))]

\* The end of sendMessage: one assistant message is appended to the list as it
\* is then, and finally isLoading is reset.
Settled(a, m) ==
  [a EXCEPT !.messages = Append(@, m), !.isLoading = FALSE, !.chat = Tail(@)]

\* response.ok
Ok(status) == status \in 200..299

\* data.error || 'Unknown error occurred'
ErrorOf(data) ==
  IF "error" \in DOMAIN data /\ data.error # "" THEN data.error
  ELSE "Unknown error occurred"

\* sendMessage after its await, for the HTTP response `data` read at time t.
Received(a, t, data) ==
  IF ~Ok(data.status)
  THEN Settled(a, ErrorMessage(t, "HTTP error! status: " \o ToString(data.status)))
  ELSE IF "success" \in DOMAIN data /\ data.success
       THEN Settled(a, AssistantMessage(t, data))
       ELSE Settled(a, ErrorMessage(t, ErrorOf(data)))

\* sendMessage after its await, when fetch rejects.
Failed(a, t, message) == Settled(a, ErrorMessage(t, message))

\* fetchModels after its await.  The function is the one of the first render,
\* so the selectedModel it tests is the initial one.
ModelsFetched(a, response) ==
  LET list == response.models
      available == {i \in DOMAIN list : list[i].available}
      first == CHOOSE i \in available : \A j \in available : i <= j IN
  IF ~Ok(response.code) THEN [a EXCEPT !.fetching = @ \ {"models"}]
  ELSE [a EXCEPT !.fetching = @ \ {"models"},
                 !.availableModels = list,
                 !.selectedModel = IF available # {} /\ InitialModel = ""
                                   THEN list[first].id ELSE @]

\* checkServerHealth after its await.
HealthChecked(a, response) ==
  [a EXCEPT !.fetching = @ \ {"health"},
            !.isConnected = IF Ok(response.code) THEN TRUE ELSE @]

\* The options of the model selector that can be chosen.
Selectable(a) ==
  {a.availableModels[i].id :
     i \in {j \in DOMAIN a.availableModels : a.availableModels[j].available}}

\* disabled={isLoading || !isConnected} of the input
InputEnabled(a) == ~a.isLoading /\ a.isConnected

\* disabled={!inputMessage.trim() || isLoading || !isConnected} of the button
ButtonEnabled(a) == Trim(a.inputMessage) # <<>> /\ ~a.isLoading /\ a.isConnected

----------------------------------------------------------------------------
(* State machine *)

\* The process listens: initializeClients has returned, and the environment is
\* not read again.
Listening == [pc |-> "listening"]

\* The clock when a run starts: later than every saved message.
StartTime == MaxSaved

\* No page has been used yet: nothing is saved.
FreshPage ==
  /\ localStorage = <<>>
  /\ app = Mounted(<<>>)
  /\ now = StartTime

Init ==
  /\ \E env \in SUBSET Providers, ctorThrows \in SUBSET Providers :
       clients = initializeClients(env, ctorThrows)
  /\ requests = [r \in ReqIds |-> IdleRequest]
  /\ health = <<>>
  /\ models = <<>>
  /\ startup = Listening
  /\ FreshPage

\* A POST /chat request arrives and its handler runs to its first suspension.
Chat(r, b) ==
  /\ requests[r].pc = "idle"
  /\ requests' = [requests EXCEPT ![r] = ChatHandler([IdleRequest EXCEPT !.body = b])]
  /\ UNCHANGED <<clients, health, models, startup, app, localStorage, now>>

\* The provider call a request awaits returns a result.
ProviderReturns(r, result) ==
  /\ requests[r].pc \in {"primary", "fallback"}
  /\ requests' = [requests EXCEPT ![r] = Resolved(@, result)]
  /\ UNCHANGED <<clients, health, models, startup, app, localStorage, now>>

\* The provider call a request awaits fails.
ProviderThrows(r, message) ==
  /\ requests[r].pc \in {"primary", "fallback"}
  /\ requests' = [requests EXCEPT ![r] = Rejected(@, message)]
  /\ UNCHANGED <<clients, health, models, startup, app, localStorage, now>>

Next ==
  \/ \E r \in ReqIds, b \in Bodies : Chat(r, b)
  \/ \E r \in ReqIds, result \in ProviderResults : ProviderReturns(r, result)
  \/ \E r \in ReqIds, message \in ProviderErrors : ProviderThrows(r, message)

Spec == Init /\ [][Next]_vars

\* The provider call request r awaits settles: it returns or it throws.
Settles(r) ==
  \/ \E result \in ProviderResults : ProviderReturns(r, result)
  \/ \E message \in ProviderErrors : ProviderThrows(r, message)

\* Spec, with every awaited provider call eventually settling (the server sets no
\* timeout of its own: it waits for the SDK's promise).
SpecFair == Spec /\ \A r \in ReqIds : WF_vars(Settles(r))

----------------------------------------------------------------------------
(* GET /health and GET /models *)

\* res.json({ status: 'healthy', availableModels: Object.keys(clients), timestamp })
HealthResponseDropsFailing ==
  LET failing == {p \in Providers :
                    \E r \in ReqIds :
                      /\ requests[r].error # <<>>
                      /\ \E i \in DOMAIN requests[r].called :
                           requests[r].called[i].provider = p} IN
  [code |-> 200, status |-> "healthy",
   availableModels |-> ObjectKeys(clients \ failing)]

HealthResponse ==
  [code |-> 200, status |-> "healthy", availableModels |-> ObjectKeys(clients)]

Descriptor(id, name, description) ==
  [id |-> id, name |-> name, available |-> id \in clients,
   description |-> description]

\* The array literal of app.get('/models').
AllDescriptors ==
  <<Descriptor("gemini", "Google Gemini 1.5 Flash",
               "Google's fast, versatile AI model"),
    Descriptor("huggingface", "Hugging Face DialoGPT",
               "Conversational AI model from Microsoft"),
    Descriptor("openai", "OpenAI GPT-4o Mini",
               "OpenAI's efficient, cost-effective model"),
    Descriptor("mistral", "Mistral Small",
               "Mistral's balanced performance model")>>

\* res.json(models)
ModelsResponseOnlyAvailable ==
  LET keep == {i \in DOMAIN AllDescriptors : AllDescriptors[i].available}
      pick == SelectSeq2(<<1, 2, 3, 4>>, keep) IN
  [code |-> 200, models |-> [i \in DOMAIN pick |-> AllDescriptors[pick[i]]]]

ModelsResponse == [code |-> 200, models |-> AllDescriptors]

\* Whether some POST /chat request has been answered (kept with each GET response
\* to tell the responses sent before a chat from those sent after one).
SomeChatEnded == \E r \in ReqIds : requests[r].pc = "done"

\* GET /health
Health ==
  /\ Len(health) < MaxHealth
  /\ health' = Append(health, [response |-> HealthResponse, afterChat |-> SomeChatEnded])
  /\ UNCHANGED <<clients, requests, models, startup, app, localStorage, now>>

\* GET /models
Models ==
  /\ models' = <<[response |-> ModelsResponse, afterChat |-> SomeChatEnded]>>
  /\ UNCHANGED <<clients, requests, health, startup, app, localStorage, now>>

\* The bodies POST /chat is driven with beside the GET requests: those without
\* a conversation history, and the empty one.
ApiBodies == {b \in Bodies : "conversationHistory" \notin DOMAIN b /\ "message" \in DOMAIN b
                              /\ b.message # <<>> /\ "model" \in DOMAIN b /\ b.model # ""}
             \cup {EmptyBody}

NextApi ==
  \/ \E r \in ReqIds, b \in ApiBodies : Chat(r, b)
  \/ \E r \in ReqIds, result \in ProviderResults : ProviderReturns(r, result)
  \/ \E r \in ReqIds, message \in ProviderErrors : ProviderThrows(r, message)
  \/ Health
  \/ Models

SpecApi == Init /\ [][NextApi]_vars

----------------------------------------------------------------------------
(* Startup, one provider block of initializeClients at a time *)

\* The block after p's, or "listening" once initializeClients has returned.
NextBlock(p) ==
  CASE p = "gemini" -> "huggingface"
    [] p = "huggingface" -> "openai"
    [] p = "openai" -> "mistral"
    [] p = "mistral" -> "listening"

\* if (process.env.<P>_API_KEY) { try { clients.<p> = new <Client>(...) }
\*                               catch (error) { console.log(...) } }
\* ctorThrows holds the providers whose client constructor throws when run.
InitializeBlockUncaught(cl, p, env, ctorThrows) ==
  IF p \in env
  THEN IF p \in ctorThrows
       THEN [clients |-> cl, crashed |-> TRUE]
       ELSE [clients |-> cl \cup {p}, crashed |-> FALSE]
  ELSE [clients |-> cl, crashed |-> FALSE]

InitializeBlock(cl, p, env, ctorThrows) ==
  IF p \in env
  THEN IF p \in ctorThrows
       THEN [clients |-> cl, crashed |-> FALSE]
       ELSE [clients |-> cl \cup {p}, crashed |-> FALSE]
  ELSE [clients |-> cl, crashed |-> FALSE]

InitStartup ==
  /\ \E env \in SUBSET Providers, ctorThrows \in SUBSET Providers :
       startup = [pc |-> "gemini", env |-> env, ctorThrows |-> ctorThrows]
  /\ clients = {}
  /\ requests = [r \in ReqIds |-> IdleRequest]
  /\ health = <<>>
  /\ models = <<>>
  /\ FreshPage

\* initializeClients runs the block of provider p.
Initialize(p) ==
  /\ startup.pc = p
  /\ LET res == InitializeBlock(clients, p, startup.env, startup.ctorThrows) IN
       /\ clients' = res.clients
       /\ startup' = [startup EXCEPT
                        !.pc = IF res.crashed THEN "crashed" ELSE NextBlock(p)]
  /\ UNCHANGED <<requests, health, models, app, localStorage, now>>

NextStartup == \E p \in Providers : Initialize(p)

SpecStartup == InitStartup /\ [][NextStartup]_vars

----------------------------------------------------------------------------
(* The frontend's steps *)

\* The credentials of the backends the page is served by.
UiEnvs == {{"gemini", "mistral"}, {"mistral"}}

\* What the user types into the input.
TypedTexts == {<<" ">>, <<" ", "h", "i", " ">>}

\* error.message of a fetch that rejects.
FetchErrors == {"Failed to fetch"}

\* What an adapter returned for a reply text.
Answer(text) == AdapterResult("mistral", [text |-> text, usage |-> <<1>>])

\* The HTTP responses to POST /chat the page meets: the three of server.js
\* for a well-formed request, and a 200 response whose body has no `success`.
ChatReplies ==
  {SuccessResponse("mistral", Answer(<<"o", "k">>)),
   FallbackResponse(Answer(<<"o", "k">>), UnavailableError("gemini")),
   FailureResponse(ApiError("mistral", "rate limit")),
   [status |-> 200]}

\* The conversation an earlier session left in localStorage: n messages, a
\* user message and its reply in turn, with pairwise different contents.
SavedConversation(n) ==
  [i \in 1..n |->
     LET k == (i + 1) \div 2 IN
     IF i % 2 = 1 THEN UserMessage(k, <<"q", Digits[k]>>)
     ELSE AssistantMessage(k, SuccessResponse("mistral", Answer(<<"a", Digits[k]>>)))]

InitUI ==
  /\ \E env \in UiEnvs : clients = initializeClients(env, {})
  /\ requests = [r \in ReqIds |-> IdleRequest]
  /\ health = <<>>
  /\ models = <<>>
  /\ startup = Listening
  /\ \E stored \in {<<>>, <<Stringify(SavedConversation(MaxSaved))>>} :
       /\ app = Mounted(stored)
       /\ localStorage = Saved(stored, Mounted(stored).messages)
  /\ now = StartTime

\* onChange of the input
SetInputMessage(text) ==
  /\ InputEnabled(app)
  /\ app' = [app EXCEPT !.inputMessage = text]
  /\ UNCHANGED <<localStorage, now>>
  /\ UNCHANGED serverVars

\* sendMessage is called, the clock having moved on.
Send ==
  /\ now < StartTime + MaxSends
  /\ app' = sendMessage(app, now + 1)
  /\ now' = IF app' = app THEN now ELSE now + 1
  /\ localStorage' = Saved(localStorage, app'.messages)
  /\ UNCHANGED serverVars

\* Enter in the input: handleKeyPress calls sendMessage.
handleKeyPress == InputEnabled(app) /\ Send

\* onClick of the send button
ClickSend == ButtonEnabled(app) /\ Send

\* The response to the POST /chat request arrives.
ReplyArrives(data) ==
  /\ app.chat # <<>>
  /\ app' = Received(app, now, data)
  /\ localStorage' = Saved(localStorage, app'.messages)
  /\ UNCHANGED now
  /\ UNCHANGED serverVars

\* The POST /chat request fails without a response.
FetchFails(message) ==
  /\ app.chat # <<>>
  /\ app' = Failed(app, now, message)
  /\ localStorage' = Saved(localStorage, app'.messages)
  /\ UNCHANGED now
  /\ UNCHANGED serverVars

\* onClick of Clear Chat: setMessages([]); localStorage.removeItem(...)
clearChat ==
  /\ app' = [app EXCEPT !.messages = <<>>]
  /\ localStorage' = Saved(<<>>, app'.messages)
  /\ UNCHANGED now
  /\ UNCHANGED serverVars

\* The page is loaded again: the component is mounted anew, and what the old
\* page awaited is dropped.
Reload ==
  /\ app' = Mounted(localStorage)
  /\ localStorage' = Saved(localStorage, app'.messages)
  /\ UNCHANGED now
  /\ UNCHANGED serverVars

\* onChange of the model selector
SelectModel(m) ==
  /\ m \in Selectable(app)
  /\ m # app.selectedModel
  /\ app' = [app EXCEPT !.selectedModel = m]
  /\ UNCHANGED <<localStorage, now>>
  /\ UNCHANGED serverVars

\* The response to GET /models arrives.
ModelsArrive ==
  /\ "models" \in app.fetching
  /\ app' = ModelsFetched(app, ModelsResponse)
  /\ UNCHANGED <<localStorage, now>>
  /\ UNCHANGED serverVars

\* GET /models fails: the error is logged.
ModelsFail ==
  /\ "models" \in app.fetching
  /\ app' = [app EXCEPT !.fetching = @ \ {"models"}]
  /\ UNCHANGED <<localStorage, now>>
  /\ UNCHANGED serverVars

\* The response to GET /health arrives.
HealthArrives ==
  /\ "health" \in app.fetching
  /\ app' = HealthChecked(app, HealthResponse)
  /\ UNCHANGED <<localStorage, now>>
  /\ UNCHANGED serverVars

\* GET /health fails: setIsConnected(false).
HealthFails ==
  /\ "health" \in app.fetching
  /\ app' = [app EXCEPT !.fetching = @ \ {"health"}, !.isConnected = FALSE]
  /\ UNCHANGED <<localStorage, now>>
  /\ UNCHANGED serverVars

NextUI ==
  \/ \E text \in TypedTexts : SetInputMessage(text)
  \/ handleKeyPress
  \/ ClickSend
  \/ \E data \in ChatReplies : ReplyArrives(data)
  \/ \E message \in FetchErrors : FetchFails(message)
  \/ clearChat
  \/ Reload
  \/ \E m \in Providers : SelectModel(m)
  \/ ModelsArrive
  \/ ModelsFail
  \/ HealthArrives
  \/ HealthFails

SpecUI == InitUI /\ [][NextUI]_vars

\* The POST /chat request in flight settles: by a response or by a failure.
SettlesChat ==
  \/ \E data \in ChatReplies : ReplyArrives(data)
  \/ \E message \in FetchErrors : FetchFails(message)

SpecUIFair == SpecUI /\ WF_vars(SettlesChat)

----------------------------------------------------------------------------
(* Properties of POST /chat *)

Started(r) == requests[r].pc # "idle"

Done(r) == requests[r].pc = "done"

\* The model identifier the request names ("undefined" when it names none).
Requested(r) == Get(requests[r].body, "model")

LacksMessage(b) == "message" \notin DOMAIN b \/ b.message = <<>>

LacksModel(b) == "model" \notin DOMAIN b \/ b.model = ""

\* The request carries a message and names one of the four providers.
WellFormed(r) ==
  /\ ~LacksMessage(requests[r].body)
  /\ ~LacksModel(requests[r].body)
  /\ Requested(r) \in {"gemini", "huggingface", "openai", "mistral"}

\* The one response of a finished request has this status.
Status(r, code) ==
  /\ Len(requests[r].sent) = 1
  /\ requests[r].sent[1].status = code

FallbackUsed(response) == "fallback" \in DOMAIN response /\ response.fallback

\* The available providers other than the requested one, in registry order.
Others(r) == SelectSeq2(ProviderOrder, clients \ {Requested(r)})

\* C1: a request whose body lacks a truthy message or a truthy model is answered
\* with HTTP 400 at once, and no adapter is entered and no provider is called,
\* whatever the registry holds.
C1_InvalidRequestIs400 ==
  \A r \in ReqIds :
    (Started(r) /\ (LacksMessage(requests[r].body) \/ LacksModel(requests[r].body)))
      => /\ Done(r)
         /\ requests[r].sent = <<[status |-> 400, error |-> "Message and model are required"]>>
         /\ requests[r].invoked = <<>>
         /\ requests[r].called = <<>>

C1_Witness ==
  \E r \in ReqIds :
    /\ Done(r)
    /\ requests[r].body = [message |-> <<>>, model |-> "gemini"]
    /\ "gemini" \in clients
    /\ Status(r, 400)

\* C2: a request with a message and a model that is none of the four providers is
\* answered with HTTP 400 and ends there: no adapter is entered, no error is
\* caught and no fallback is attempted, even when providers are available.
C2_UnknownModelIs400 ==
  \A r \in ReqIds :
    ( /\ Started(r)
      /\ ~LacksMessage(requests[r].body)
      /\ ~LacksModel(requests[r].body)
      /\ Requested(r) \notin {"gemini", "huggingface", "openai", "mistral"} )
      => /\ Done(r)
         /\ requests[r].sent = <<[status |-> 400, error |-> "Invalid model specified"]>>
         /\ requests[r].invoked = <<>>
         /\ requests[r].called = <<>>
         /\ requests[r].error = <<>>

C2_Witness ==
  \E r \in ReqIds :
    /\ Done(r)
    /\ Requested(r) = "claude"
    /\ ~LacksMessage(requests[r].body)
    /\ clients # {}
    /\ Status(r, 400)

\* C3 (as claimed): once the primary attempt has failed and some available
\* provider differs from the requested one, a fallback attempt is made on the
\* first such provider, and HTTP 500 is sent only after that attempt failed.
C3_FallbackWheneverAnotherProviderIsAvailable ==
  \A r \in ReqIds :
    (requests[r].error # <<>> /\ Others(r) # <<>>)
      => /\ Len(requests[r].invoked) = 2
         /\ requests[r].invoked[2] = Others(r)[1]
         /\ (Done(r) /\ Status(r, 500)) => requests[r].fallbackError # <<>>

\* The request names one of the four providers, that provider has no client,
\* and some other provider is available.
UnconfiguredWithAlternative(r) ==
  /\ WellFormed(r)
  /\ Requested(r) \notin clients
  /\ clients # {}

\* C4 (as claimed): a finished request that names a known but unconfigured
\* provider while another provider is available is answered with HTTP 200,
\* fallback = true and the fallback provider's model identifier.
C4_UnconfiguredAlwaysSucceeds ==
  \A r \in ReqIds :
    (Done(r) /\ UnconfiguredWithAlternative(r))
      => /\ Status(r, 200)
         /\ FallbackUsed(requests[r].sent[1])
         /\ requests[r].sent[1].model = ModelName(ObjectKeys(clients)[1])
         /\ requests[r].sent[1].model # ModelName(Requested(r))

\* C4 (amended): a request that names a known but unconfigured provider while
\* another provider is available calls no provider on the primary attempt and
\* falls back to the first available provider; when that call succeeds the
\* response is HTTP 200 with fallback = true and the fallback provider's model
\* identifier, never the requested provider's; when it fails the response is
\* HTTP 500.
C4_UnconfiguredFallsBack ==
  \A r \in ReqIds :
    (Started(r) /\ UnconfiguredWithAlternative(r))
      => LET first == Others(r)[1] IN
         /\ requests[r].invoked = <<Requested(r), first>>
         /\ Len(requests[r].called) = 1
         /\ requests[r].called[1].provider = first
         /\ (Done(r) /\ requests[r].fallbackError = <<>>)
              => /\ Status(r, 200)
                 /\ FallbackUsed(requests[r].sent[1])
                 /\ requests[r].sent[1].model = ModelName(first)
                 /\ requests[r].sent[1].model # ModelName(Requested(r))
         /\ (Done(r) /\ requests[r].fallbackError # <<>>) => Status(r, 500)

C4_Witness ==
  \E r \in ReqIds :
    /\ Done(r)
    /\ UnconfiguredWithAlternative(r)
    /\ Requested(r) = "gemini"
    /\ clients = {"openai", "mistral"}
    /\ Status(r, 200)
    /\ requests[r].sent[1].model = "gpt-4o-mini"

\* C5 (as claimed): with no provider available, every finished request is
\* answered with HTTP 500, whatever its body.
C5_NoProviderAlways500 ==
  \A r \in ReqIds : (clients = {} /\ Done(r)) => Status(r, 500)

\* C5 (amended): with no provider available, a request that carries a message
\* and names one of the four providers ends at once with HTTP 500 and no
\* provider call; a request that lacks a message or a model, or names an unknown
\* model, is answered with HTTP 400.
C5_NoProvider500Or400 ==
  \A r \in ReqIds :
    (clients = {} /\ Started(r))
      => /\ Done(r)
         /\ requests[r].called = <<>>
         /\ WellFormed(r) => Status(r, 500)
         /\ ~WellFormed(r) => Status(r, 400)

C5_Witness ==
  \E r \in ReqIds :
    /\ clients = {}
    /\ Done(r)
    /\ WellFormed(r)
    /\ Requested(r) = "openai"
    /\ Status(r, 500)

\* The texts a response carries (every field but the status and the flags).
ReportedTexts(response) ==
  {response[f] : f \in DOMAIN response \cap {"error", "details", "originalError"}}

\* C6 (as claimed): when the primary and the fallback adapter both failed, the
\* HTTP 500 response carries the primary's and the fallback's error message.
C6_BothErrorsReported ==
  \A r \in ReqIds :
    (Done(r) /\ requests[r].error # <<>> /\ requests[r].fallbackError # <<>>)
      => /\ Status(r, 500)
         /\ requests[r].error[1] \in ReportedTexts(requests[r].sent[1])
         /\ requests[r].fallbackError[1] \in ReportedTexts(requests[r].sent[1])

\* The error message the primary attempt of a well-formed request fails with.
PrimaryErrors(r) ==
  IF Requested(r) \in clients
  THEN {ApiError(Requested(r), m) : m \in ProviderErrors}
  ELSE {UnavailableError(Requested(r))}

\* C7: when the fallback adapter succeeds, the response is HTTP 200 with
\* success = true, fallback = true, response/model/tokensUsed those of the
\* fallback adapter's result, and originalError the primary attempt's error
\* message ('<Provider> client not available' for a provider without a client).
\* With clients for Gemini and OpenAI only, a request for 'mistral' is answered
\* by 'gemini-1.5-flash' with originalError 'Mistral client not available'.
C7_FallbackSuccessResponse ==
  \A r \in ReqIds :
    (Done(r) /\ Len(requests[r].invoked) = 2 /\ requests[r].returned # <<>>)
      => LET result == requests[r].returned[1] IN
         /\ requests[r].error # <<>>
         /\ requests[r].error[1] \in PrimaryErrors(r)
         /\ requests[r].sent =
              <<[status |-> 200, success |-> TRUE, response |-> result.content,
                 model |-> result.model, tokensUsed |-> result.tokensUsed,
                 fallback |-> TRUE, originalError |-> requests[r].error[1]]>>
         /\ result.model = ModelName(requests[r].invoked[2])
         /\ (clients = {"gemini", "openai"} /\ Requested(r) = "mistral")
              => /\ requests[r].sent[1].model = "gemini-1.5-flash"
                 /\ requests[r].sent[1].originalError = "Mistral client not available"

C7_Witness ==
  \E r \in ReqIds :
    /\ Done(r)
    /\ clients = {"gemini", "openai"}
    /\ Requested(r) = "mistral"
    /\ requests[r].invoked = <<"mistral", "gemini">>
    /\ requests[r].returned # <<>>
    /\ requests[r].sent[1].tokensUsed = 1

C9_DepthOneFallback ==
  \A r \in ReqIds :
    /\ Len(requests[r].invoked) <= 2
    /\ Len(requests[r].called) <= 2
    /\ requests[r].fallbackError # <<>>
         => /\ Done(r)
            /\ Status(r, 500)
            /\ Len(requests[r].invoked) = 2

\* A fallback failed while a provider that was never tried is available.
C9_Witness ==
  \E r \in ReqIds :
    /\ Done(r)
    /\ requests[r].fallbackError # <<>>
    /\ Len(requests[r].called) = 2
    /\ \E p \in clients : \A i \in DOMAIN requests[r].invoked : requests[r].invoked[i] # p

\* C10: a well-formed request that ends without a provider result (no fallback
\* was attempted, or the fallback failed) is answered with HTTP 500, error
\* 'Failed to get AI response' and details the primary attempt's error message.
\* With no credentials, a request for 'gemini' is answered that way.
C10_FailureResponse ==
  \A r \in ReqIds :
    (Done(r) /\ WellFormed(r) /\ requests[r].returned = <<>>)
      => /\ requests[r].error # <<>>
         /\ requests[r].error[1] \in PrimaryErrors(r)
         /\ requests[r].sent =
              <<[status |-> 500, error |-> "Failed to get AI response",
                 details |-> requests[r].error[1]]>>
         /\ (clients = {} /\ Requested(r) = "gemini")
              => requests[r].sent[1].details = "Gemini client not available"

\* The fallback failed, and the details are still the primary's message.
C10_Witness ==
  \E r \in ReqIds :
    /\ Done(r)
    /\ WellFormed(r)
    /\ requests[r].fallbackError # <<>>
    /\ requests[r].error # <<>>
    /\ requests[r].fallbackError # requests[r].error
    /\ Status(r, 500)

\* The message an adapter without a client fails with.
NotAvailable(p) ==
  CASE p = "gemini" -> "Gemini client not available"
    [] p = "huggingface" -> "Hugging Face client not available"
    [] p = "openai" -> "OpenAI client not available"
    [] p = "mistral" -> "Mistral client not available"

\* C15: an adapter entered without a client fails with '<Provider> client not
\* available' and its provider is not called; every provider that is called has
\* a client.
C15_UnavailableBeforeAnyCall ==
  \A r \in ReqIds :
    /\ \A i \in DOMAIN requests[r].called : requests[r].called[i].provider \in clients
    /\ \A i \in DOMAIN requests[r].invoked :
         requests[r].invoked[i] \notin clients
           => /\ i = 1
              /\ requests[r].error = <<NotAvailable(requests[r].invoked[i])>>
              /\ \A k \in DOMAIN requests[r].called :
                   requests[r].called[k].provider # requests[r].invoked[i]

\* The Hugging Face adapter was entered without a client while other providers
\* have one.
C15_Witness ==
  \E r \in ReqIds :
    /\ requests[r].invoked = <<"huggingface", "gemini">>
    /\ clients = {"gemini", "openai", "mistral"}
    /\ requests[r].error = <<"Hugging Face client not available">>
    /\ Len(requests[r].called) = 1

\* The history a request supplies ([] when it supplies none).
Supplied(r) ==
  IF "conversationHistory" \in DOMAIN requests[r].body
  THEN requests[r].body.conversationHistory
  ELSE <<>>

RECURSIVE SplitLines(_, _)
\* The lines of a text, cut at each "\n"; cur is the line being read.
SplitLines(text, cur) ==
  IF text = <<>> THEN <<cur>>
  ELSE IF Head(text) = "\n" THEN <<cur>> \o SplitLines(Tail(text), <<>>)
  ELSE SplitLines(Tail(text), Append(cur, Head(text)))

NonEmptyLines(text) == SelectSeq(SplitLines(text, <<>>), LAMBDA l : l # <<>>)

\* A payload carries history h turn by turn, in order, and then the message.
Relays(p, payload, h, message) ==
  CASE p = "gemini" ->
         /\ Len(payload.history) = Len(h)
         /\ \A k \in DOMAIN h :
              /\ payload.history[k].parts = <<[text |-> h[k].content]>>
              /\ payload.history[k].role = (IF h[k].role = "assistant" THEN "model" ELSE "user")
         /\ payload.message = message
    [] p = "huggingface" ->
         LET lines == NonEmptyLines(payload.inputs) IN
         /\ Len(lines) = Len(h) + 2
         /\ \A k \in DOMAIN h :
              lines[k] = (IF h[k].role = "user"
                          THEN <<"U", "s", "e", "r", ":", " ">>
                          ELSE <<"A", "s", "s", "i", "s", "t", "a", "n", "t", ":", " ">>)
                         \o h[k].content
         /\ lines[Len(h) + 1] = <<"U", "s", "e", "r", ":", " ">> \o message
         /\ lines[Len(h) + 2] = <<"A", "s", "s", "i", "s", "t", "a", "n", "t", ":">>
    [] OTHER ->
         /\ Len(payload.messages) = Len(h) + 1
         /\ \A k \in DOMAIN h : payload.messages[k] = h[k]
         /\ payload.messages[Len(h) + 1] = [role |-> "user", content |-> message]

\* C16: every provider call, on the primary and on the fallback attempt, carries
\* the history the request supplied, turn by turn in the order supplied, followed
\* by the new user message.
C16_HistoryRelayedInOrder ==
  \A r \in ReqIds :
    \A i \in DOMAIN requests[r].called :
      Relays(requests[r].called[i].provider, requests[r].called[i].payload,
             Supplied(r), requests[r].body.message)

\* A two-turn history went to Mistral and, after its failure, to the fallback.
C16_Witness ==
  \E r \in ReqIds :
    /\ Len(Supplied(r)) >= 2
    /\ Supplied(r)[1] # Supplied(r)[2]
    /\ Len(requests[r].called) = 2
    /\ requests[r].called[1].provider = "mistral"
    /\ requests[r].called[2].provider = "huggingface"

\* C19: a fallback adapter is entered only for the first provider, in the order
\* gemini, huggingface, openai, mistral, that has a client; that provider is not
\* the requested one, and the requested provider's adapter is entered once.
C19_FallbackIsFirstAvailable ==
  \A r \in ReqIds :
    /\ Len(requests[r].invoked) >= 1 => requests[r].invoked[1] = Requested(r)
    /\ \A i \in DOMAIN requests[r].invoked :
         i >= 2
           => /\ requests[r].invoked[i] \in clients
              /\ requests[r].invoked[i]
                   = SelectSeq2(<<"gemini", "huggingface", "openai", "mistral">>, clients)[1]
              /\ requests[r].invoked[i] # Requested(r)

\* A configured provider failed and the fallback went to the first available one.
C19_Witness ==
  \E r \in ReqIds :
    /\ clients = {"huggingface", "openai", "mistral"}
    /\ requests[r].invoked = <<"mistral", "huggingface">>
    /\ Len(requests[r].called) = 2

\* The response a finished request must have got, read off its own body and its
\* own provider outcomes alone.
OwnResponse(r) ==
  LET q == requests[r] IN
  IF LacksMessage(q.body) \/ LacksModel(q.body)
  THEN [status |-> 400, error |-> "Message and model are required"]
  ELSE IF ~WellFormed(r)
  THEN [status |-> 400, error |-> "Invalid model specified"]
  ELSE IF q.returned # <<>> /\ q.error = <<>>
  THEN [status |-> 200, success |-> TRUE, response |-> q.returned[1].content,
        model |-> q.returned[1].model, tokensUsed |-> q.returned[1].tokensUsed]
  ELSE IF q.returned # <<>>
  THEN [status |-> 200, success |-> TRUE, response |-> q.returned[1].content,
        model |-> q.returned[1].model, tokensUsed |-> q.returned[1].tokensUsed,
        fallback |-> TRUE, originalError |-> q.error[1]]
  ELSE [status |-> 500, error |-> "Failed to get AI response",
        details |-> IF q.error # <<>> THEN q.error[1] ELSE ""]

\* C20: a request has sent no response while it runs and exactly one when it has
\* ended, on every path; that response follows from the request's own body and
\* provider outcomes; a step of one request leaves every other request as it
\* was; and, provider calls settling, every request that arrived ends.
C20_ExactlyOneResponse ==
  /\ [](\A r \in ReqIds :
          /\ ~Done(r) => requests[r].sent = <<>>
          /\ Done(r) => requests[r].sent = <<OwnResponse(r)>>)
  /\ [][\A r1, r2 \in ReqIds :
          (r1 # r2 /\ requests'[r1] # requests[r1]) => requests'[r2] = requests[r2]]_vars
  /\ \A r \in ReqIds : Started(r) ~> Done(r)

\* One request has ended with its one response (after a failed fallback) while
\* another one with the same body is still waiting for its fallback provider.
C20_Witness ==
  /\ Done("r1")
  /\ Len(requests["r1"].called) = 2
  /\ requests["r1"].sent = <<OwnResponse("r1")>>
  /\ requests["r1"].sent[1].status = 500
  /\ requests["r2"].pc = "fallback"
  /\ requests["r2"].body = requests["r1"].body
  /\ Len(requests["r2"].called) = 2

----------------------------------------------------------------------------
(* Properties of the frontend *)

\* s is an initial part of t.
IsPrefix(s, t) == Len(s) <= Len(t) /\ \A i \in DOMAIN s : t[i] = s[i]

\* C17, as stated: the conversation list is append-only.  Across every step of
\* the frontend (sendMessage, the arrival of a reply or of an error, clearChat,
\* a reload from localStorage) each message of the list stays where it is and
\* as it is, and new messages are added at the end only.
C17_AppendOnly == [][IsPrefix(app.messages, app'.messages)]_vars

\* C17, amended: the conversation list is append-only except for clearChat.
\* Every step other than clearChat (sendMessage, the arrival of a reply or of
\* an error, a reload from localStorage) keeps each message of the list where
\* it is and as it is and adds at most one message, at the end; clearChat
\* empties the list and removes the saved copy.
C17_AppendOnlyUntilCleared ==
  [][\/ /\ IsPrefix(app.messages, app'.messages)
        /\ Len(app'.messages) <= Len(app.messages) + 1
     \/ /\ clearChat
        /\ app'.messages = <<>>
        /\ localStorage' = <<>>]_vars

\* clearChat emptied the list while a request was in flight, and the reply was
\* then appended to the emptied list and saved.
C17_Witness ==
  /\ Len(app.messages) = 1
  /\ app.messages[1].role = "assistant"
  /\ app.messages[1].fallback = <<TRUE>>
  /\ app.chat = <<>>
  /\ localStorage = <<Stringify(app.messages)>>

\* A step in which sendMessage submits a POST /chat request.
Submits == app.chat = <<>> /\ app'.chat # <<>>

\* C18: on each sendMessage the frontend submits as conversationHistory the
\* trailing window of the conversation list as it was before the new user
\* message was appended: at most the last 10 messages, in their order, reduced
\* to {role, content}, and without the message being sent (which is appended
\* to the list in the same step).
C18_TrailingWindow ==
  [][Submits =>
       LET body == app'.chat[1]
           h == body.conversationHistory
           before == app.messages
           k == IF Len(before) < 10 THEN Len(before) ELSE 10 IN
       /\ DOMAIN body = {"message", "model", "conversationHistory"}
       /\ Len(h) = k
       /\ \A i \in 1..k :
            h[i] = [role |-> before[Len(before) - k + i].role,
                    content |-> before[Len(before) - k + i].content]
       /\ Len(app'.messages) = Len(before) + 1
       /\ IsPrefix(before, app'.messages)
       /\ app'.messages[Len(before) + 1].role = "user"
       /\ app'.messages[Len(before) + 1].content = body.message]_vars

\* A request is in flight whose history is a full window, cut from a list that
\* was longer than the window, and the message sent is the last of the list.
C18_Witness ==
  /\ app.chat # <<>>
  /\ Len(app.chat[1].conversationHistory) = HistoryWindow
  /\ Len(app.messages) > HistoryWindow + 1
  /\ app.messages[Len(app.messages)].role = "user"
  /\ app.messages[Len(app.messages)].content = app.chat[1].message
  /\ app.chat[1].conversationHistory[1].content # app.messages[1].content

\* A step in which the response to GET /models is taken over.
ModelsTakenOver ==
  /\ "models" \in app.fetching
  /\ "models" \notin app'.fetching
  /\ app'.availableModels # <<>>

\* C21: after the frontend has fetched /models, the selected model is the first
\* available model of the returned list; in particular, when gemini is
\* unavailable and another provider is available, the selection has moved to
\* that provider.
C21_SelectsFirstAvailable ==
  [][ModelsTakenOver =>
       \A i \in DOMAIN app'.availableModels :
         (/\ app'.availableModels[i].available
          /\ \A j \in 1..(i - 1) : ~app'.availableModels[j].available)
           => app'.selectedModel = app'.availableModels[i].id]_vars

\* The input holds nothing but white space.
Blank(text) == Trim(text) = <<>>

\* The last message of a list.
Last(ms) == ms[Len(ms)]

\* C22: a sendMessage call made while a request is in flight or with a blank
\* input changes nothing and sends nothing, so at most one POST /chat request
\* is in flight at any time; a sendMessage that passes the guard appends
\* exactly one user message (the trimmed input) and sends one request; when
\* that request settles (by a response of any kind or by a failure) exactly
\* one assistant message is appended and isLoading is false again; and a
\* request in flight does settle or is dropped by a reload.
C22_OneRequestAtATime ==
  /\ [](/\ Len(app.chat) <= 1
        /\ app.isLoading <=> app.chat # <<>>
        /\ \A text \in TypedTexts \cup {<<>>} :
             LET a == [app EXCEPT !.inputMessage = text] IN
             (Blank(text) \/ app.isLoading) => sendMessage(a, now + 1) = a)
  /\ [][/\ (Blank(app.inputMessage) \/ app.isLoading) =>
             /\ Len(app'.chat) <= Len(app.chat)
             /\ \/ Len(app'.messages) <= Len(app.messages)
                \/ Last(app'.messages).role # "user"
        /\ Len(app'.chat) > Len(app.chat) =>
             /\ app'.chat = <<ChatRequest(app)>>
             /\ app'.messages =
                  Append(app.messages, UserMessage(now', Trim(app.inputMessage)))
             /\ app'.isLoading
             /\ app'.inputMessage = <<>>
        /\ (Len(app'.messages) > Len(app.messages) /\ Last(app'.messages).role = "user") =>
             Len(app'.chat) > Len(app.chat)
        /\ Len(app'.chat) < Len(app.chat) =>
             \/ Reload
             \/ /\ Len(app'.messages) = Len(app.messages) + 1
                /\ IsPrefix(app.messages, app'.messages)
                /\ Last(app'.messages).role = "assistant"
                /\ ~app'.isLoading
                /\ app'.chat = <<>>
        /\ (Len(app'.messages) > Len(app.messages) /\ Last(app'.messages).role = "assistant") =>
             Len(app'.chat) < Len(app.chat)]_vars
  /\ app.isLoading ~> ~app.isLoading

\* A message was sent and its request failed without a response: the list holds
\* the user message and the error text, nothing is in flight, and the input
\* holds a blank text, with which sendMessage does nothing.
C22_Witness ==
  /\ Len(app.messages) = 2
  /\ app.messages[1].role = "user"
  /\ app.messages[1].content = <<"h", "i">>
  /\ app.messages[2] = ErrorMessage(now, "Failed to fetch")
  /\ ~app.isLoading
  /\ app.chat = <<>>
  /\ app.inputMessage = <<" ">>
  /\ sendMessage(app, now + 1) = app

\* The message m answers the message u: both were made by one sendMessage call,
\* u before its await and m after it.
Answers(m, u) ==
  /\ u.role = "user"
  /\ m.role = "assistant"
  /\ \E t \in 1..(StartTime + MaxSends) :
       u.id = ToString(DateNow(t)) /\ m.id = ToString(DateNow(t) + 1)

\* C23: under every interleaving of sendMessage, reply or error arrival and
\* clearChat, each assistant message of the conversation list is immediately
\* preceded by the user message it answers, and once the list and the
\* localStorage copy are empty (as clearChat leaves them) they stay empty until
\* the next sendMessage submits a request.
C23_RepliesFollowTheirMessage ==
  /\ [](\A i \in DOMAIN app.messages :
          app.messages[i].role = "assistant" =>
            i > 1 /\ Answers(app.messages[i], app.messages[i - 1]))
  /\ [][(app.messages = <<>> /\ localStorage = <<>> /\ ~(Len(app'.chat) > Len(app.chat)))
          => (app'.messages = <<>> /\ localStorage' = <<>>)]_vars

----------------------------------------------------------------------------
(* Properties of the server as a whole *)

\* Two requests were given the same body and the same provider outcomes.
SameInputs(r1, r2) ==
  /\ requests[r1].body = requests[r2].body
  /\ requests[r1].returned = requests[r2].returned
  /\ requests[r1].error = requests[r2].error
  /\ requests[r1].fallbackError = requests[r2].fallbackError

\* C11: no request changes the registry or the startup state, a GET request
\* changes nothing of any POST /chat request, and two finished POST /chat
\* requests with the same body and the same provider outcomes got the same
\* response through the same adapters, whichever came first and whatever GET
\* requests were served around them.
C11_Stateless ==
  /\ [][clients' = clients /\ startup' = startup]_vars
  /\ [][(health' # health \/ models' # models) => requests' = requests]_vars
  /\ [](\A r1, r2 \in ReqIds :
          (Done(r1) /\ Done(r2) /\ SameInputs(r1, r2))
            => /\ requests[r1].sent = requests[r2].sent
               /\ requests[r1].invoked = requests[r2].invoked
               /\ requests[r1].called = requests[r2].called)

\* Two requests for the same provider both succeeded, around a /health and a
\* /models call.
C11_Witness ==
  /\ Done("r1") /\ Done("r2")
  /\ requests["r1"].body = [message |-> Hi, model |-> "openai"]
  /\ SameInputs("r1", "r2")
  /\ requests["r1"].returned # <<>>
  /\ requests["r1"].sent[1].tokensUsed = 1
  /\ health # <<>> /\ models # <<>>
  /\ clients = {"openai"}

\* C12: every GET /models response is the four descriptors gemini, huggingface,
\* openai, mistral in that order, each available exactly when the registry holds
\* a client for it, before and after POST /chat requests.
C12_ModelsResponse ==
  models # <<>>
    => LET m == models[1].response.models IN
       /\ models[1].response.code = 200
       /\ Len(m) = 4
       /\ <<m[1].id, m[2].id, m[3].id, m[4].id>>
            = <<"gemini", "huggingface", "openai", "mistral">>
       /\ \A i \in 1..4 : m[i].available <=> (m[i].id \in clients)

C12_Witness ==
  /\ models # <<>>
  /\ models[1].afterChat
  /\ clients = {"huggingface", "mistral"}
  /\ \E r \in ReqIds : Done(r) /\ requests[r].fallbackError # <<>>

\* C13: all GET /health responses carry the same availableModels, which is the
\* list of the providers that have a client, in registry order, and whose first
\* entry is the provider POST /chat falls back to.
C13_HealthIdempotent ==
  /\ \A i, j \in DOMAIN health :
       health[i].response.availableModels = health[j].response.availableModels
  /\ \A i \in DOMAIN health :
       /\ health[i].response.availableModels
            = SelectSeq2(<<"gemini", "huggingface", "openai", "mistral">>, clients)
       /\ \A r \in ReqIds :
            Len(requests[r].invoked) = 2
              => requests[r].invoked[2] = health[i].response.availableModels[1]

\* Two /health calls, the first before any chat and the second after a chat whose
\* primary provider failed and whose fallback was used.
C13_Witness ==
  /\ Len(health) = 2
  /\ ~health[1].afterChat
  /\ health[2].afterChat
  /\ clients = {"gemini", "openai"}
  /\ \E r \in ReqIds : Done(r) /\ requests[r].invoked = <<"openai", "gemini">>

----------------------------------------------------------------------------
(* Properties of startup *)

\* The providers whose block initializeClients has finished.
Initialized ==
  CASE startup.pc = "gemini" -> {}
    [] startup.pc = "huggingface" -> {"gemini"}
    [] startup.pc = "openai" -> {"gemini", "huggingface"}
    [] startup.pc = "mistral" -> {"gemini", "huggingface", "openai"}
    [] startup.pc = "listening" -> {"gemini", "huggingface", "openai", "mistral"}
    [] OTHER -> {}

\* C14: for every set of configured credentials and every set of throwing
\* constructors, initialization never fails, and after a provider's block the
\* provider is in the registry exactly when its credential is set and its
\* constructor did not throw, whatever happened to the other providers; the
\* registry at the end is the one the server runs with.
C14_StartupRegistry ==
  /\ startup.pc # "crashed"
  /\ "env" \in DOMAIN startup
       => /\ \A p \in Initialized :
               p \in clients <=> (p \in startup.env /\ p \notin startup.ctorThrows)
          /\ clients \subseteq Initialized
          /\ startup.pc = "listening"
               => clients = initializeClients(startup.env, startup.ctorThrows)

\* Gemini's credential is missing and OpenAI's constructor threw; the two others
\* came up.
C14_Witness ==
  /\ startup.pc = "listening"
  /\ "env" \in DOMAIN startup
  /\ startup.env = {"huggingface", "openai", "mistral"}
  /\ startup.ctorThrows = {"openai"}
  /\ clients = {"huggingface", "mistral"}

====
